---------------------------- MODULE Spec2Model ----------------------------
(***************************************************************************)
(* GAME BUS MTY (src/app.py): the event log normalizer, the monthly        *)
(* rollup, the year-to-date KPIs, the calendar projection and the .ics     *)
(* export, and the handlers of the user interface.                         *)
(*                                                                         *)
(* Encoding of table cells.  A spreadsheet cell is a record:               *)
(*   NaN       [k |-> "nan"]               an empty cell (pandas NaN/NaT)  *)
(*   Num(v)    [k |-> "num", v |-> v]      a number                        *)
(*   Str(s)    [k |-> "str", s |-> s]      a text                          *)
(* Numbers are fixed point, so that int(), astype(int) and round(2) do     *)
(* what they do to floats:                                                 *)
(*   - the ID column counts tenths      (Num(15) is the id 1.5),           *)
(*   - money and percentages count thousandths (Num(1000004) is 1000.004), *)
(*   - Fecha counts days from 2025-01-01 (day 1), Hora and Hora fin count  *)
(*     seconds of the day, an instant counts seconds: day * 86400 + second,*)
(*   - counters (Eventos, Reservas confirmadas, the Ads and Funnel inputs) *)
(*     are plain integers, a quotient of two of them is an exact fraction. *)
(* A Fecha or Hora cell that is a Str is a text pandas cannot parse.       *)
(***************************************************************************)
EXTENDS Integers, Sequences, FiniteSets, TLC

VARIABLES disk, dfs, monthly, kpi, cur_m, fullcal_events, rendered,
          ics, edit_id, last, uploaded, added

vars == <<disk, dfs, monthly, kpi, cur_m, fullcal_events, rendered,
          ics, edit_id, last, uploaded, added>>

\* uploaded is the file the uploader of the sidebar holds (<<>> without one,
\* <<file>> with one).  added records the ids "Guardar evento" gave out and
\* no delete has selected since.

\* What the last run of the script did: the button that was pressed (or the
\* step that ran), the rows ticked in the event list, the month picked and
\* the values entered in the form (<<>> without one).
Did(op, sel, mes, form) == [op |-> op, sel |-> sel, mes |-> mes, form |-> form]

-----------------------------------------------------------------------------
(* Cells *)

NaN == [k |-> "nan"]

Num(v) == [k |-> "num", v |-> v]

Str(s) == [k |-> "str", s |-> s]

isna(c) == c.k = "nan"

notna(c) == c.k # "nan"

\* float -> int, truncating toward zero, on tenths
TruncTenths(t) == IF t >= 0 THEN t \div 10 ELSE -((-t) \div 10)

\* an integer as a value of the (float) ID column
IdCell(n) == Num(n * 10)

RECURSIVE SumSeq(_)
SumSeq(s) == IF s = <<>> THEN 0 ELSE Head(s) + SumSeq(Tail(s))

RECURSIVE Flatten(_)
Flatten(ss) == IF ss = <<>> THEN <<>> ELSE Head(ss) \o Flatten(Tail(ss))

\* how many of the first upto rows the mask selects
Count(mask, upto) == Cardinality({j \in 1..upto : mask[j]})

-----------------------------------------------------------------------------
(* Constants of the program *)

SPANISH_MONTHS == <<"Ene", "Feb", "Mar", "Abr", "May", "Jun",
                    "Jul", "Ago", "Sep", "Oct", "Nov", "Dic">>

MONTH_NAME_MAP == [i \in 1..12 |-> SPANISH_MONTHS[i]]

APPLY_FIXED_FROM_MONTH == 10

month_to_num(mes_str) ==
    IF \E i \in 1..12 : SPANISH_MONTHS[i] = mes_str
    THEN CHOOSE i \in 1..12 : SPANISH_MONTHS[i] = mes_str
    ELSE 0

-----------------------------------------------------------------------------
(* ensure_eventlog_columns *)

\* pd.to_numeric(errors="coerce"): a text that is no number becomes NaN
to_numeric(c) == IF c.k = "num" THEN c ELSE NaN

\* df["Estatus"].fillna("Pendiente").replace({"": "Pendiente"})
fill_estatus(c) == IF isna(c) \/ c = Str("") THEN Str("Pendiente") ELSE c

\* df["ID"].astype(int): the fraction is cut off
astype_int(c) == Num(TruncTenths(c.v) * 10)

\* faulty variant: duplicated(keep=False), every row of a repeated id is renumbered
duplicated_keep_none(ids, i) == \E j \in DOMAIN ids : j # i /\ ids[j] = ids[i]

\* df["ID"].duplicated(keep="first"), for row i
duplicated(ids, i) == \E j \in 1..(i-1) : ids[j] = ids[i]

\* The ID column of the returned table (lines 83-101).
stable_ids(col) ==
    LET n == Len(col)
        ids0 == [i \in 1..n |-> to_numeric(col[i])]
    IN  IF \A i \in 1..n : isna(ids0[i])
        THEN [i \in 1..n |-> astype_int(IdCell(i))]
        ELSE
          LET present == {i \in 1..n : notna(ids0[i])}
              top == CHOOSE i \in present :
                        \A j \in present : ids0[j].v <= ids0[i].v
              max_id == TruncTenths(ids0[top].v)
              nan_mask == [i \in 1..n |-> isna(ids0[i])]
              ids1 == [i \in 1..n |->
                         IF nan_mask[i]
                         THEN IdCell(max_id + Count(nan_mask, i))
                         ELSE ids0[i]]
              max_id1 == max_id + Count(nan_mask, n)
              dups == [i \in 1..n |-> duplicated(ids1, i)]
              ids2 == [i \in 1..n |->
                         IF dups[i]
                         THEN IdCell(max_id1 + Count(dups, i))
                         ELSE ids1[i]]
          IN  [i \in 1..n |-> astype_int(ids2[i])]

ensure_eventlog_columns(df) ==
    LET ids == stable_ids([i \in 1..Len(df) |-> df[i].ID])
    IN  [i \in 1..Len(df) |->
           [df[i] EXCEPT !.ID = ids[i], !.Estatus = fill_estatus(df[i].Estatus)]]

-----------------------------------------------------------------------------
(* Tables and the store *)

\* One row of Event_Log.  The free-text columns Nombre, Direccion, Telefono,
\* Colonia/Zona and Notas are not modelled: nothing computed here reads them
\* but the calendar title and the .ics description.
EventRow(id, fecha, hora, hora_fin, paquete, precio, addon, margen, retro, cv, estatus) ==
    [ID |-> id, Fecha |-> fecha, Hora |-> hora, Hora_fin |-> hora_fin,
     Paquete |-> paquete, Precio |-> precio, Addon_Pizza |-> addon,
     Margen_Pizza |-> margen, Retro_exterior |-> retro,
     Costo_variable |-> cv, Estatus |-> estatus]

\* A table other than Event_Log: its column names and its rows.
Table(columns, rows) == [columns |-> columns, rows |-> rows]

EmptyTable == Table({}, <<>>)

\* load_db: every sheet read, Event_Log normalized
load_db(file) == [file EXCEPT !.Event_Log = ensure_eventlog_columns(file.Event_Log)]

\* session_state["dfs"]: <<>> while absent, <<tables>> once loaded
HasDfs == dfs # <<>>

\* get_dfs, on the first run of the script
LoadDb ==
    /\ ~HasDfs
    /\ dfs' = <<load_db(disk)>>
    /\ last' = Did("load_db", {}, "", <<>>)
    /\ UNCHANGED <<disk, monthly, kpi, cur_m, fullcal_events, rendered, ics, edit_id,
                   uploaded, added>>

-----------------------------------------------------------------------------
(* Dates, texts and rounding *)

\* pd.to_datetime(errors="coerce"): a text that is no date becomes NaT
to_datetime(c) == IF c.k = "num" THEN c ELSE NaN

DaysBefore == <<0, 31, 59, 90, 120, 151, 181, 212, 243, 273, 304, 334>>

\* .dt.month of a day counted from 2025-01-01 (2025 and 2026 have 365 days)
dt_month(d) == Cardinality({i \in 1..12 : DaysBefore[i] < ((d - 1) % 365) + 1})

\* str.strip().lower() on the texts the tables hold
strip_lower(s) ==
    CASE s = "Efectuado" -> "efectuado"
      [] s = "EFECTUADO" -> "efectuado"
      [] s = "Pendiente" -> "pendiente"
      [] s = "Sí" -> "sí"
      [] s = "SI" -> "si"
      [] s = " X " -> "x"
      [] s = "No" -> "no"
      [] s = "Clásico" -> "clásico"
      [] s = "Retro" -> "retro"
      [] s = "Clásico + Retro" -> "clásico + retro"
      [] s = "Otro" -> "otro"
      [] s = "yes" -> "yes"
      [] s = "RETRO" -> "retro"
      [] s = " Clásico " -> "clásico"
      [] s = "Retro + Clásico" -> "retro + clásico"
      [] s = "Clasico" -> "clasico"
      [] s = "PENDIENTE" -> "pendiente"
      [] OTHER -> s

\* str.lower() alone: the blanks around the text stay
lower(s) ==
    CASE s = " X " -> " x "
      [] s = " Clásico " -> " clásico "
      [] OTHER -> strip_lower(s)

\* sub in p, for the lower-case package names
contains(p, sub) ==
    CASE sub = "retro" -> p \in {"retro", "clásico + retro", "retro + clásico"}
      [] sub = "clásico" -> p \in {"clásico", "clásico + retro", "retro + clásico"}
      [] OTHER -> p = sub

\* x.round(2) on thousandths: to the nearest ten, a tie to the even one
round2(x) ==
    LET a == IF x >= 0 THEN x ELSE -x
        q == a \div 10
        r == a % 10
        up == r > 5 \/ (r = 5 /\ q % 2 = 1)
        m == (IF up THEN q + 1 ELSE q) * 10
    IN  IF x >= 0 THEN m ELSE -m

\* (n / d).round(2) for n >= 0, d > 0, n in thousandths
round2_div(n, d) ==
    LET q == n \div (10 * d)
        rem == n - q * 10 * d
        up == 2 * rem > 10 * d \/ (2 * rem = 10 * d /\ q % 2 = 1)
    IN  (IF up THEN q + 1 ELSE q) * 10

-----------------------------------------------------------------------------
(* compute_monthly *)

get_assumption(d, var_name, default) ==
    LET df == d.Assumptions
        match == SelectSeq(df.rows, LAMBDA r : r.Variable = var_name)
    IN  IF {"Variable", "Valor"} \subseteq df.columns /\ match # <<>>
             /\ match[1].Valor.k = "num"
        THEN match[1].Valor.v
        ELSE default

\* ev_all[ev_all["Estatus"].str.lower() == "efectuado"]
is_efectuado(r) == r.Estatus.k = "str" /\ strip_lower(r.Estatus.s) = "efectuado"

\* faulty variant: the status filter left out
completed_unfiltered(ev_all) == ev_all

completed(ev_all) == SelectSeq(ev_all, is_efectuado)

\* ev["Fecha"].dt.month.map(MONTH_NAME_MAP)
Mes_of(r) ==
    LET f == to_datetime(r.Fecha)
    IN  IF isna(f) THEN NaN ELSE Str(MONTH_NAME_MAP[dt_month(f.v)])

\* .fillna(False).astype(str).str.strip().str.lower().isin([...])
is_yes(c) ==
    c.k = "str" /\ strip_lower(c.s) \in {"si", "sí", "true", "1", "x", "yes"}

\* the rows of one group of ev.groupby("Mes")
group(ev, m) == SelectSeq(ev, LAMBDA r : Mes_of(r) = Str(m))

\* the sum of a column, NaN skipped
col_sum(g, col) ==
    SumSeq([i \in 1..Len(g) |-> IF notna(g[i][col]) THEN g[i][col].v ELSE 0])

\* "Precio (MXN)": "count": the rows of the group whose price is not NaN
events_count(g) == Cardinality({i \in 1..Len(g) : notna(g[i].Precio)})

\* faulty variant: the default is not added for the events without a cost
costo_variable_no_backfill(g, costo_var_default) == col_sum(g, "Costo_variable")

\* "Costo variable (MXN)": "sum", then + miss[i] * costo_var_default
costo_variable_total(g, costo_var_default) ==
    col_sum(g, "Costo_variable")
      + Cardinality({i \in 1..Len(g) : isna(g[i].Costo_variable)}) * costo_var_default

\* faulty variant: the threshold month itself left out
gastos_fijos_after(mes, gasto_fijo_mensual) ==
    IF month_to_num(mes) > APPLY_FIXED_FROM_MONTH THEN gasto_fijo_mensual ELSE 0

\* base.loc[base["_num"] >= APPLY_FIXED_FROM_MONTH, "Gastos fijos (MXN)"]
gastos_fijos(mes, gasto_fijo_mensual) ==
    IF month_to_num(mes) >= APPLY_FIXED_FROM_MONTH THEN gasto_fijo_mensual ELSE 0

utilidad_neta(ingresos, costo_variable, fijos, margen_pizza) ==
    ingresos - costo_variable - fijos + margen_pizza

\* np.where(base["Eventos"] > 0, base["_Reservas"] / base["Eventos"] * 100, 0),
\* rounded; the division of a NaN is a NaN
reservas_meta(eventos, reservas) ==
    IF eventos > 0
    THEN IF reservas.k = "num" THEN Num(round2_div(reservas.v * 100000, eventos))
         ELSE NaN
    ELSE Num(0)

funnel_usable(funnel) ==
    /\ funnel.rows # <<>>
    /\ funnel.columns # {}
    /\ {"Mes", "Reservas confirmadas"} \subseteq funnel.columns

\* base.merge(tmp, on="Mes", how="left"): one row per matching Funnel row,
\* one row with NaN when none matches
merge_left(base, funnel) ==
    Flatten([i \in 1..Len(base) |->
        LET hits == SelectSeq(funnel.rows, LAMBDA f : f.Mes = Str(base[i].Mes))
        IN  IF hits = <<>> THEN << <<base[i], NaN>> >>
            ELSE [j \in 1..Len(hits) |-> <<base[i], hits[j].Reservas>>]])

\* base["Mes"].map(rese_map).fillna(0)
resenas_nuevas(monthly_sheet, mes) ==
    LET hits == SelectSeq(monthly_sheet.rows, LAMBDA r : r.Mes = Str(mes))
    IN  IF monthly_sheet.rows # <<>> /\ "Reseñas nuevas (#)" \in monthly_sheet.columns
             /\ hits # <<>> /\ hits[1].Resenas.k = "num"
        THEN hits[1].Resenas.v
        ELSE 0

\* base.sort_values("Mes") on the ordered categorical
sort_by_mes(rows) ==
    Flatten([i \in 1..12 |-> SelectSeq(rows, LAMBDA r : r.Mes = SPANISH_MONTHS[i])])

compute_monthly(d) ==
    LET costo_var_default == get_assumption(d, "Costo variable por evento (MXN)", 0)
        gasto_fijo_mensual == get_assumption(d, "Gastos fijos mensuales (MXN)", 0)
        ev == completed(d.Event_Log)
        base == [i \in 1..12 |->
            LET mes == SPANISH_MONTHS[i]
                g == group(ev, mes)
                eventos == events_count(g)
                ingresos == col_sum(g, "Precio")
                costo == costo_variable_total(g, costo_var_default)
                margen == col_sum(g, "Margen_Pizza")
                fijos == gastos_fijos(mes, gasto_fijo_mensual)
            IN  [Mes |-> mes,
                 Eventos |-> eventos,
                 Precio_promedio |->
                     IF eventos = 0 THEN 0 ELSE round2_div(ingresos, eventos),
                 Ingresos |-> round2(ingresos),
                 Costo_variable |-> round2(costo),
                 Gastos_fijos |-> round2(fijos),
                 Addons_Pizza |->
                     Cardinality({k \in 1..Len(g) : is_yes(g[k].Addon_Pizza)}),
                 Margen_Pizza |-> round2(margen),
                 Utilidad_neta |-> round2(utilidad_neta(ingresos, costo, fijos, margen)),
                 ARPU_real |->
                     IF eventos > 0 THEN round2_div(ingresos, eventos) ELSE 0,
                 Adopcion_Retro |->
                     IF g = <<>> THEN 0
                     ELSE round2_div(
                            100000 * Cardinality({k \in 1..Len(g) :
                                                     is_yes(g[k].Retro_exterior)}),
                            Len(g)),
                 Resenas_nuevas |-> round2(resenas_nuevas(d.Monthly, mes))]]
        merged == IF funnel_usable(d.Funnel)
                  THEN LET m == merge_left(base, d.Funnel)
                       IN  [i \in 1..Len(m) |->
                              [Reservas_Meta |->
                                  reservas_meta(m[i][1].Eventos, m[i][2])] @@ m[i][1]]
                  ELSE [i \in 1..12 |-> [Reservas_Meta |-> Num(0)] @@ base[i]]
    IN  sort_by_mes(merged)

-----------------------------------------------------------------------------
(* kpi_summary *)

\* faulty variant: the whole year summed
kpi_summary_whole_year(monthly_df, now_month) ==
    << SumSeq([i \in 1..Len(monthly_df) |-> monthly_df[i].Eventos]),
       SumSeq([i \in 1..Len(monthly_df) |-> monthly_df[i].Ingresos]),
       SumSeq([i \in 1..Len(monthly_df) |-> monthly_df[i].Utilidad_neta]) >>

kpi_summary(monthly_df, now_month) ==
    LET df == SelectSeq(monthly_df, LAMBDA r : month_to_num(r.Mes) <= now_month)
    IN  << SumSeq([i \in 1..Len(df) |-> df[i].Eventos]),
           SumSeq([i \in 1..Len(df) |-> df[i].Ingresos]),
           SumSeq([i \in 1..Len(df) |-> df[i].Utilidad_neta]) >>

-----------------------------------------------------------------------------
(* events_to_fullcalendar *)

\* h_dt.strftime("%H:%M"): the seconds of a time of day are dropped
strftime_HM(t) == (t \div 60) * 60

\* An instant is counted in seconds: day * 86400 + second of the day.
\* hora_val that is empty or no time leaves the fallback (an "HH:MM").
combine_dt(fecha_val, hora_val, fallback) ==
    LET f == to_datetime(fecha_val)
        h_str == IF hora_val.k = "num" THEN strftime_HM(hora_val.v) ELSE fallback
    IN  IF isna(f) THEN NaN ELSE Num(f.v * 86400 + h_str)

\* timedelta(hours=2)
two_hours == 7200

\* if (not end_dt) or end_dt <= start_dt: end_dt = start_dt + timedelta(hours=2)
end_after(start_dt, end_dt) ==
    IF isna(end_dt) \/ end_dt.v <= start_dt.v
    THEN Num(start_dt.v + two_hours)
    ELSE end_dt

build_iso(row) ==
    LET d == to_datetime(row.Fecha)
        start_dt == combine_dt(d, row.Hora, 36000)
        end_dt == combine_dt(d, row.Hora_fin, start_dt.v % 86400)
    IN  IF isna(d) \/ isna(start_dt) THEN <<NaN, NaN>>
        ELSE <<start_dt, end_after(start_dt, end_dt)>>

\* faulty variant: "retro" is looked for before the two names together
color_for_retro_first(paquete, estatus) ==
    LET p == IF paquete.k = "str" THEN strip_lower(paquete.s) ELSE "nan"
    IN  IF estatus.k = "str" /\ lower(estatus.s) = "pendiente" THEN "#3b82f6"
        ELSE IF contains(p, "retro") THEN "#ef4444"
        ELSE IF contains(p, "retro") /\ contains(p, "clásico") THEN "#7c3aed"
        ELSE IF contains(p, "clásico") THEN "#10b981"
        ELSE "#6b7280"

\* str(paquete or "") of an empty cell is "nan"
color_for(paquete, estatus) ==
    LET p == IF paquete.k = "str" THEN strip_lower(paquete.s) ELSE "nan"
    IN  IF estatus.k = "str" /\ lower(estatus.s) = "pendiente" THEN "#3b82f6"
        ELSE IF contains(p, "retro") /\ contains(p, "clásico") THEN "#7c3aed"
        ELSE IF contains(p, "retro") THEN "#ef4444"
        ELSE IF contains(p, "clásico") THEN "#10b981"
        ELSE "#6b7280"

\* faulty variant: a row without a start time is skipped as well
events_to_fullcalendar_timed(ev_df) ==
    LET dated == SelectSeq(ev_df, LAMBDA r : notna(build_iso(r)[1]) /\ r.Hora.k = "num")
    IN  [i \in 1..Len(dated) |->
           [title_estatus |-> dated[i].Estatus,
            start |-> build_iso(dated[i])[1].v,
            end |-> build_iso(dated[i])[2].v,
            color |-> color_for(dated[i].Paquete, dated[i].Estatus)]]

\* one entry per row with a start; the title's text is not modelled but for
\* the status it ends with
events_to_fullcalendar(ev_df) ==
    LET dated == SelectSeq(ev_df, LAMBDA r : notna(build_iso(r)[1]))
    IN  [i \in 1..Len(dated) |->
           [title_estatus |-> dated[i].Estatus,
            start |-> build_iso(dated[i])[1].v,
            end |-> build_iso(dated[i])[2].v,
            color |-> color_for(dated[i].Paquete, dated[i].Estatus)]]

-----------------------------------------------------------------------------
(* to_ics *)

\* f"{dtstart.strftime('%Y%m%dT%H%M%S')}-gamebus@agenda": the start instant,
\* written out, and a fixed suffix
uid_of(dtstart) == <<dtstart, "-gamebus@agenda">>

\* one VEVENT block per row with a start; SUMMARY, LOCATION and DESCRIPTION
\* are texts of the columns that are not modelled
to_ics(df_events) ==
    LET dated == SelectSeq(df_events,
                           LAMBDA r : notna(combine_dt(r.Fecha, r.Hora, 36000)))
    IN  [i \in 1..Len(dated) |->
           LET r == dated[i]
               dtstart == combine_dt(r.Fecha, r.Hora, 36000)
               dtend == combine_dt(r.Fecha, r.Hora_fin, dtstart.v % 86400)
           IN  [UID |-> uid_of(dtstart.v),
                DTSTART |-> dtstart.v,
                DTEND |-> end_after(dtstart, dtend).v]]

-----------------------------------------------------------------------------
(* One run of the script: the Dashboard and the Agenda tabs *)

Render ==
    /\ HasDfs
    /\ ~rendered
    /\ \E now_month \in 1..12 :
         LET m == compute_monthly(dfs[1])
         IN  /\ cur_m' = now_month
             /\ monthly' = m
             /\ kpi' = kpi_summary(m, now_month)
    /\ fullcal_events' = events_to_fullcalendar(dfs[1].Event_Log)
    /\ ics' = to_ics(dfs[1].Event_Log)
    /\ rendered' = TRUE
    /\ last' = Did("render", {}, "", <<>>)
    /\ UNCHANGED <<disk, dfs, edit_id, uploaded, added>>

\* The Agenda tab alone (lines 738-758)
Agenda ==
    /\ HasDfs
    /\ ~rendered
    /\ fullcal_events' = events_to_fullcalendar(dfs[1].Event_Log)
    /\ ics' = to_ics(dfs[1].Event_Log)
    /\ rendered' = TRUE
    /\ last' = Did("agenda", {}, "", <<>>)
    /\ UNCHANGED <<disk, dfs, monthly, kpi, cur_m, edit_id, uploaded, added>>

-----------------------------------------------------------------------------
(* The normalizer on raw Event_Log sheets *)

MaxRows == 4

RawIds == {NaN, Str("abc"), Num(10), Num(15), Num(30), Num(70), Num(-5)}

RawRow(id, estatus) ==
    EventRow(id, NaN, NaN, NaN, NaN, NaN, NaN, NaN, NaN, NaN, estatus)

RawRows == {RawRow(id, NaN) : id \in RawIds}
           \cup {RawRow(Num(30), Str("")), RawRow(NaN, Str("Efectuado"))}

SeqsUpTo(S, n) == UNION {[1..k -> S] : k \in 0..n}

File(event_log, assumptions, funnel, monthly_sheet) ==
    [Event_Log |-> event_log, Assumptions |-> assumptions,
     Funnel |-> funnel, Monthly |-> monthly_sheet, Ads |-> EmptyTable]

NoView ==
    /\ monthly = <<>>
    /\ kpi = <<0, 0, 0>>
    /\ cur_m = 0
    /\ fullcal_events = <<>>
    /\ rendered = FALSE
    /\ ics = <<>>
    /\ edit_id = <<>>
    /\ last = Did("start", {}, "", <<>>)
    /\ uploaded = <<>>
    /\ added = {}

InitNormalize ==
    /\ disk \in {File(log, EmptyTable, EmptyTable, EmptyTable) :
                    log \in SeqsUpTo(RawRows, MaxRows)}
    /\ dfs = <<>>
    /\ NoView

NextNormalize == LoadDb

SpecNormalize == InitNormalize /\ [][NextNormalize]_vars

\* the ID column as read from the file, and as returned
RawCol == [i \in 1..Len(disk.Event_Log) |-> to_numeric(disk.Event_Log[i].ID)]

OutCol == [i \in 1..Len(dfs[1].Event_Log) |-> dfs[1].Event_Log[i].ID]

\* C1: after ensure_eventlog_columns every row has a non-null integer id
\* and no two rows share an id, whatever the raw ids were.
C1_UniqueIntegerIds ==
    HasDfs =>
        /\ \A i \in DOMAIN OutCol : OutCol[i].k = "num" /\ OutCol[i].v % 10 = 0
        /\ \A i, j \in DOMAIN OutCol : i # j => OutCol[i] # OutCol[j]

SomeIdPresent == HasDfs /\ \E i \in DOMAIN RawCol : notna(RawCol[i])

\* the largest id of the file, as pandas' max() gives it
MaxBefore ==
    LET present == {i \in DOMAIN RawCol : notna(RawCol[i])}
    IN  CHOOSE m \in {RawCol[i].v : i \in present} : \A i \in present : RawCol[i].v <= m

FirstOccurrence(i) == notna(RawCol[i]) /\ \A j \in 1..(i-1) : RawCol[j] # RawCol[i]

LaterOccurrence(i) == notna(RawCol[i]) /\ \E j \in 1..(i-1) : RawCol[j] = RawCol[i]

\* C2, as claimed: when some id is present, a row whose id is present and
\* the first of its value keeps it, and every id that was changed is above
\* the maximum id present before the repair.
C2_OnlyMissingAndDuplicatesChange ==
    SomeIdPresent =>
        /\ \A i \in DOMAIN RawCol : FirstOccurrence(i) => OutCol[i] = RawCol[i]
        /\ \A i \in DOMAIN RawCol : OutCol[i] # RawCol[i] => OutCol[i].v > MaxBefore

\* C2, amended: when some id is present, a row whose id is an integer and
\* the first of its value keeps it; a first occurrence that is no integer
\* is cut to its integer part; and every row whose id was missing, no
\* number, or a later occurrence of its value gets an id above the maximum
\* id present before the repair.
C2_IntegerFirstOccurrencesKept ==
    SomeIdPresent =>
        \A i \in DOMAIN RawCol :
            /\ (FirstOccurrence(i) /\ RawCol[i].v % 10 = 0) => OutCol[i] = RawCol[i]
            /\ FirstOccurrence(i) => OutCol[i].v = TruncTenths(RawCol[i].v) * 10
            /\ (isna(RawCol[i]) \/ LaterOccurrence(i)) =>
                   (OutCol[i].v > MaxBefore /\ OutCol[i].v % 10 = 0)

\* C2, reached: the ids {3, 3, null, 7}: 3 and 7 stay, the two new ids are 9 and 8
C2_Witness ==
    /\ HasDfs
    /\ RawCol = <<Num(30), Num(30), NaN, Num(70)>>
    /\ OutCol = <<Num(30), Num(90), Num(80), Num(70)>>

-----------------------------------------------------------------------------
(* The rollup, the KPIs and the calendar on stored files *)

MaxEvents == 2

\* Rows of an Event_Log sheet: a day of March 2025, one of October 2025, one
\* of December 2026, a text that is no date and an empty date; amounts with and without a
\* fraction of a cent; prices and variable costs that are missing.
EventSamples ==
    { EventRow(NaN, Num(64), Num(36000), NaN, Str("Retro"), Num(1000004),
               Str("Sí"), Num(4), Str("Sí"), NaN, Str("Efectuado")),
      EventRow(NaN, Num(79), Str("tarde"), Num(32400), Str("Clásico"), NaN,
               Str("No"), NaN, Str("No"), Num(50004), Str("Efectuado")),
      EventRow(NaN, Num(284), Num(82800), Num(84600), Str("Clásico + Retro"), Num(500000),
               Str(" X "), Num(80000), NaN, Num(0), Str("EFECTUADO")),
      EventRow(NaN, Num(64), Num(57600), Num(64800), Str("Otro"), Num(700000),
               Str("Sí"), Num(30000), Str("SI"), NaN, Str("Pendiente")),
      EventRow(NaN, Str("pronto"), Num(36000), NaN, Str("Retro"), Num(300000),
               Str("No"), Num(0), Str("No"), NaN, Str("Efectuado")),
      EventRow(NaN, NaN, NaN, NaN, NaN, Num(100000),
               NaN, NaN, NaN, NaN, NaN),
      EventRow(NaN, Num(714), NaN, Str(""), Str("Otro"), Num(250500),
               NaN, NaN, Str("yes"), NaN, Str("Efectuado")) }

AssumptionRows(cv, fijo) ==
    Table({"Variable", "Valor"},
          << [Variable |-> "Costo variable por evento (MXN)", Valor |-> Num(cv)],
             [Variable |-> "Gastos fijos mensuales (MXN)", Valor |-> Num(fijo)] >>)

MonthlyRows(mes, resenas) ==
    Table({"Mes", "Reseñas nuevas (#)"}, << [Mes |-> Str(mes), Resenas |-> Num(resenas)] >>)

\* the Assumptions and the Monthly sheets of a file
Settings ==
    { <<EmptyTable, EmptyTable>>,
      <<AssumptionRows(200000, 5000000), EmptyTable>>,
      <<AssumptionRows(200004, 5000004), MonthlyRows("Mar", 3000)>> }

FunnelRow(mes, reservas) == [Mes |-> Str(mes), Reservas |-> reservas]

FunnelCols == {"Mes", "Mensajes", "Citas ofrecidas", "Reservas confirmadas",
               "Tasa de cierre (%)"}

\* Funnel sheets: none, one without the counter's column, rows for one
\* month, for two months, and two rows for the same month
FunnelTables ==
    { EmptyTable,
      Table({"Mes", "Mensajes"}, << FunnelRow("Mar", NaN) >>),
      Table(FunnelCols, << FunnelRow("Mar", Num(2)) >>),
      Table(FunnelCols, << FunnelRow("Oct", Num(1)) >>),
      Table(FunnelCols, << FunnelRow("Mar", Num(2)), FunnelRow("Oct", NaN) >>),
      Table(FunnelCols, << FunnelRow("Mar", Num(2)), FunnelRow("Mar", Num(3)) >>) }

InitRollup ==
    /\ disk \in {File(log, st[1], funnel, st[2]) :
                    log \in SeqsUpTo(EventSamples, MaxEvents),
                    st \in Settings, funnel \in FunnelTables}
    /\ dfs = <<>>
    /\ NoView

NextRollup == LoadDb \/ Render

SpecRollup == InitRollup /\ [][NextRollup]_vars

-----------------------------------------------------------------------------
(* What the rollup is claimed to return, stated on the stored Event_Log *)

RECURSIVE SumOver(_, _)
SumOver(f, S) ==
    IF S = {} THEN 0
    ELSE LET x == CHOOSE x \in S : TRUE IN f[x] + SumOver(f, S \ {x})

Log == dfs[1].Event_Log

IsCompleted(r) == r.Estatus \in {Str("Efectuado"), Str("EFECTUADO")}

\* the Completed events whose date falls in month number n
CompletedIn(n) ==
    {i \in DOMAIN Log : /\ IsCompleted(Log[i])
                        /\ Log[i].Fecha.k = "num"
                        /\ dt_month(Log[i].Fecha.v) = n}

\* the value the Assumptions sheet configures for a variable, 0 without one
Configured(var_name) ==
    LET rows == dfs[1].Assumptions.rows
        hit == {i \in DOMAIN rows : rows[i].Variable = var_name}
    IN  IF hit = {} THEN 0 ELSE rows[CHOOSE i \in hit : \A j \in hit : i <= j].Valor.v

-----------------------------------------------------------------------------
\* C3: only Completed events contribute to the rollup (it is the rollup of
\* the log without its Pending events), and every Pending event with a
\* date that parses has its entry in the calendar projection: the entries
\* are, in order, the events whose date parses, each with its status.
C3_PendingOnlyOnCalendar ==
    rendered =>
        LET not_pending == SelectSeq(Log, LAMBDA r : r.Estatus # Str("Pendiente"))
            dated == SelectSeq(Log, LAMBDA r : r.Fecha.k = "num")
        IN  /\ monthly = compute_monthly([dfs[1] EXCEPT !.Event_Log = not_pending])
            /\ Len(fullcal_events) = Len(dated)
            /\ \A i \in DOMAIN dated :
                  fullcal_events[i].title_estatus = dated[i].Estatus

\* C3, reached: a Completed and a Pending event of March: one event counted, two entries
C3_Witness ==
    /\ rendered
    /\ \E i, j \in DOMAIN Log :
          /\ IsCompleted(Log[i]) /\ Log[i].Fecha = Num(64)
          /\ Log[j].Estatus = Str("Pendiente") /\ Log[j].Fecha = Num(64)
    /\ monthly[3].Eventos = 1
    /\ Len(fullcal_events) = 2

\* C4: compute_monthly returns exactly 12 rows, one per month, in order.
C4_TwelveRows ==
    rendered =>
        /\ Len(monthly) = 12
        /\ \A i \in 1..12 : monthly[i].Mes = SPANISH_MONTHS[i]

\* C5: in every returned row net_profit is revenue - variable_cost_total
\* - fixed_cost + pizza_margin_total of the same row.
C5_NetProfitOfTheRow ==
    rendered =>
        \A i \in DOMAIN monthly :
            monthly[i].Utilidad_neta =
                monthly[i].Ingresos - monthly[i].Costo_variable
                  - monthly[i].Gastos_fijos + monthly[i].Margen_Pizza

\* the variable cost of month n: the explicit costs of its Completed events
\* plus the default for each of them that has none
VariableCostOf(n) ==
    SumOver([i \in DOMAIN Log |->
                IF Log[i].Costo_variable.k = "num" THEN Log[i].Costo_variable.v
                ELSE Configured("Costo variable por evento (MXN)")],
            CompletedIn(n))

C7_EventsCounted ==
    rendered =>
        \A i \in DOMAIN monthly :
            /\ monthly[i].Eventos = Cardinality(CompletedIn(month_to_num(monthly[i].Mes)))
            /\ monthly[i].ARPU_real =
                 IF monthly[i].Eventos > 0
                 THEN round2_div(monthly[i].Ingresos, monthly[i].Eventos)
                 ELSE 0

\* the Funnel rows that hold the month's confirmed reservations
FunnelRowsOf(mes) ==
    IF "Reservas confirmadas" \in dfs[1].Funnel.columns
    THEN {j \in DOMAIN dfs[1].Funnel.rows : dfs[1].Funnel.rows[j].Mes = Str(mes)}
    ELSE {}

\* C8: booking_ratio_pct is a number in every row: confirmed reservations /
\* events_count * 100 when events_count > 0 and the Funnel has a row for
\* the month, and 0 when events_count = 0 or the Funnel has none.
C8_BookingRatioNeverNaN ==
    rendered =>
        \A i \in DOMAIN monthly :
            LET r == monthly[i]
                rows == FunnelRowsOf(r.Mes)
            IN  /\ r.Reservas_Meta.k = "num"
                /\ (r.Eventos = 0 \/ rows = {}) => r.Reservas_Meta = Num(0)
                /\ (r.Eventos > 0 /\ rows # {}) =>
                      \E j \in rows :
                          /\ dfs[1].Funnel.rows[j].Reservas.k = "num"
                          /\ r.Reservas_Meta =
                               Num(round2_div(dfs[1].Funnel.rows[j].Reservas.v * 100000,
                                              r.Eventos))

UpToNow == {i \in DOMAIN monthly : month_to_num(monthly[i].Mes) <= cur_m}

\* the summary with the rows after the current month overwritten
LaterRowsChanged ==
    [i \in DOMAIN monthly |->
        IF i \in UpToNow THEN monthly[i]
        ELSE [monthly[i] EXCEPT !.Eventos = 7, !.Ingresos = 9990000,
                                !.Utilidad_neta = -5550000]]

\* C10: kpi_summary as of month c returns the sums of events_count, revenue
\* and net_profit over the rows with month index <= c, and the rows after
\* c do not change it.
C10_YearToDate ==
    rendered =>
        /\ kpi = << SumOver([i \in DOMAIN monthly |-> monthly[i].Eventos], UpToNow),
                    SumOver([i \in DOMAIN monthly |-> monthly[i].Ingresos], UpToNow),
                    SumOver([i \in DOMAIN monthly |-> monthly[i].Utilidad_neta], UpToNow) >>
        /\ kpi = kpi_summary(LaterRowsChanged, cur_m)

\* C10, reached: as of June, with an event in March and one in October
C10_Witness ==
    /\ rendered
    /\ cur_m = 6
    /\ \E i \in DOMAIN monthly : monthly[i].Mes = "Oct" /\ monthly[i].Eventos > 0
    /\ \E i \in DOMAIN monthly : monthly[i].Mes = "Mar" /\ monthly[i].Eventos > 0
    /\ kpi[1] = 1

-----------------------------------------------------------------------------
(* The calendar projection and the .ics export on stored files *)

MaxEntries == 3

\* Rows of an Event_Log sheet, for the Agenda: start and end times that are
\* missing, no time, with seconds, equal, in and out of order; dates that are
\* missing or no date; package names in several spellings.
AgendaRow(fecha, hora, hora_fin, paquete, estatus) ==
    EventRow(NaN, fecha, hora, hora_fin, paquete, Num(500000),
             Str("No"), Num(0), Str("No"), Num(0), estatus)

AgendaSamples ==
    { AgendaRow(Num(64), Num(36000), NaN, Str("Retro"), Str("Efectuado")),
      AgendaRow(Num(64), Num(36045), Num(36059), Str("Clásico + Retro"), Str("Efectuado")),
      AgendaRow(Num(64), NaN, Num(32400), Str("Clásico"), Str("Pendiente")),
      AgendaRow(Num(79), Str("tarde"), Num(50400), Str(" Clásico "), Str("Efectuado")),
      AgendaRow(Num(79), Num(82800), Num(82800), Str("RETRO"), Str("PENDIENTE")),
      AgendaRow(NaN, Num(36000), Num(43200), Str("Retro + Clásico"), Str("Efectuado")),
      AgendaRow(Str("pronto"), Num(36000), NaN, Str("Otro"), NaN),
      AgendaRow(Num(284), Num(54000), Num(61200), Str("Clasico"), Str("Efectuado")),
      AgendaRow(Num(284), Num(54000), Str("noche"), NaN, NaN),
      AgendaRow(Num(64), Num(36000), Num(43200), Str("Retro + Clásico"), Str("Efectuado")) }

InitCalendar ==
    /\ disk \in {File(log, EmptyTable, EmptyTable, EmptyTable) :
                    log \in SeqsUpTo(AgendaSamples, MaxEntries)}
    /\ dfs = <<>>
    /\ NoView

NextCalendar == LoadDb \/ Agenda

SpecCalendar == InitCalendar /\ [][NextCalendar]_vars

\* the events whose date parses, in the order of the log
Dated == SelectSeq(Log, LAMBDA r : r.Fecha.k = "num")

\* a time of day without its seconds
WholeMinute(t) == t - (t % 60)

\* date + time of day, as an instant
At(fecha, t) == fecha.v * 86400 + t

\* C11, as claimed: the start of an event's entry is date + start_time (10:00
\* when start_time is missing or no time), its end is date + end_time when
\* that is strictly after the start and start + 2 hours otherwise, the end is
\* after the start, and DTSTART/DTEND of the export follow the same rule.
C11_StartEndExact ==
    rendered =>
        /\ Len(fullcal_events) = Len(Dated) /\ Len(ics) = Len(Dated)
        /\ \A i \in DOMAIN Dated :
              LET r == Dated[i]
                  start == At(r.Fecha, IF r.Hora.k = "num" THEN r.Hora.v ELSE 36000)
                  end == IF r.Hora_fin.k = "num" /\ At(r.Fecha, r.Hora_fin.v) > start
                         THEN At(r.Fecha, r.Hora_fin.v)
                         ELSE start + 7200
              IN  /\ fullcal_events[i].start = start
                  /\ fullcal_events[i].end = end
                  /\ fullcal_events[i].end > fullcal_events[i].start
                  /\ ics[i].DTSTART = start
                  /\ ics[i].DTEND = end

\* C11, at the resolution of a minute: the same rule holds once start_time
\* and end_time are taken to the whole minute (their seconds dropped) before
\* they are combined and compared.
C11_StartEndToTheMinute ==
    rendered =>
        /\ Len(fullcal_events) = Len(Dated) /\ Len(ics) = Len(Dated)
        /\ \A i \in DOMAIN Dated :
              LET r == Dated[i]
                  start == At(r.Fecha, IF r.Hora.k = "num"
                                       THEN WholeMinute(r.Hora.v) ELSE 36000)
                  end == IF r.Hora_fin.k = "num"
                            /\ At(r.Fecha, WholeMinute(r.Hora_fin.v)) > start
                         THEN At(r.Fecha, WholeMinute(r.Hora_fin.v))
                         ELSE start + 7200
              IN  /\ fullcal_events[i].start = start
                  /\ fullcal_events[i].end = end
                  /\ fullcal_events[i].end > fullcal_events[i].start
                  /\ ics[i].DTSTART = start
                  /\ ics[i].DTEND = end

\* C11, reached: an event at 10:00 without end time ends at 12:00, one from
\* 23:00 to 23:00 ends at 01:00 of the next day, one without start time that
\* ends at 14:00 runs from 10:00 to 14:00
C11_Witness ==
    /\ rendered
    /\ Len(Log) = 3
    /\ Log[1].Fecha = Num(64) /\ Log[1].Hora = Num(36000) /\ Log[1].Hora_fin = NaN
    /\ Log[2].Fecha = Num(79) /\ Log[2].Hora = Num(82800) /\ Log[2].Hora_fin = Num(82800)
    /\ Log[3].Fecha = Num(79) /\ Log[3].Hora = Str("tarde") /\ Log[3].Hora_fin = Num(50400)
    /\ fullcal_events[1].end = fullcal_events[1].start + 7200
    /\ fullcal_events[2].end = 80 * 86400 + 3600
    /\ ics[2].DTEND = 80 * 86400 + 3600
    /\ fullcal_events[3].start = 79 * 86400 + 36000
    /\ ics[3].DTEND = 79 * 86400 + 50400

\* C12: an event whose date is missing or no date has no entry in the
\* calendar and no VEVENT in the export, and every event whose date parses
\* has exactly one of each: the entries and the blocks are, in order, those
\* of the events with a date.
C12_UndatedSkipped ==
    rendered =>
        /\ Len(fullcal_events) = Len(Dated)
        /\ Len(ics) = Len(Dated)
        /\ \A i \in DOMAIN Dated :
              /\ fullcal_events[i].start \div 86400 = Dated[i].Fecha.v
              /\ fullcal_events[i].title_estatus = Dated[i].Estatus
              /\ ics[i].DTSTART \div 86400 = Dated[i].Fecha.v

\* C12, reached: an event without a date, one whose date is no date and one of
\* 5 March without a start time: one entry and one block, on 5 March
C12_Witness ==
    /\ rendered
    /\ Len(Log) = 3
    /\ \E i, j, k \in 1..3 :
          /\ Log[i].Fecha = NaN
          /\ Log[j].Fecha = Str("pronto")
          /\ Log[k].Fecha = Num(64) /\ Log[k].Hora = NaN
    /\ Len(fullcal_events) = 1 /\ fullcal_events[1].start \div 86400 = 64
    /\ Len(ics) = 1 /\ ics[1].DTSTART \div 86400 = 64

\* C13: no two VEVENT blocks of an export carry the same UID.
C13_UidUnique ==
    rendered =>
        \A i, j \in DOMAIN ics : i # j => ics[i].UID # ics[j].UID

\* what the package and the status of an event say, whatever the case
IsPending(r) == r.Estatus \in {Str("Pendiente"), Str("PENDIENTE")}

NamesRetro(r) ==
    r.Paquete \in {Str("Retro"), Str("RETRO"), Str("Clásico + Retro"),
                   Str("Retro + Clásico")}

NamesClasico(r) ==
    r.Paquete \in {Str("Clásico"), Str(" Clásico "), Str("Clásico + Retro"),
                   Str("Retro + Clásico")}

\* C17: the color of an entry is the pending color when the event is
\* Pending, whatever its package; otherwise the blend color when the package
\* names both "retro" and "clásico", the retro color for "retro" alone, the
\* classic color for "clásico" alone, and the neutral color for the rest.
C17_ColorPrecedence ==
    rendered =>
        /\ Len(fullcal_events) = Len(Dated)
        /\ \A i \in DOMAIN Dated :
              fullcal_events[i].color =
                  IF IsPending(Dated[i]) THEN "#3b82f6"
                  ELSE IF NamesRetro(Dated[i]) /\ NamesClasico(Dated[i]) THEN "#7c3aed"
                  ELSE IF NamesRetro(Dated[i]) THEN "#ef4444"
                  ELSE IF NamesClasico(Dated[i]) THEN "#10b981"
                  ELSE "#6b7280"

\* C17, reached: a Pending "Clásico", a Completed "Retro + Clásico" and a
\* Completed "Retro" get the pending, the blend and the retro color
C17_Witness ==
    /\ rendered
    /\ Len(Log) = 3
    /\ Log[1].Paquete = Str("Clásico") /\ Log[1].Estatus = Str("Pendiente")
    /\ Log[2].Paquete = Str("Retro + Clásico") /\ Log[2].Estatus = Str("Efectuado")
    /\ Log[2].Fecha = Num(64)
    /\ Log[3].Paquete = Str("Retro") /\ Log[3].Estatus = Str("Efectuado")
    /\ Len(fullcal_events) = 3
    /\ fullcal_events[1].color = "#3b82f6"
    /\ fullcal_events[2].color = "#7c3aed"
    /\ fullcal_events[3].color = "#ef4444"

-----------------------------------------------------------------------------
(* save_db, and what the handlers share *)

\* df.to_excel, then read_excel: an empty text is read back as an empty cell
excel_cell(c) == IF c = Str("") THEN NaN ELSE c

\* the file save_db writes, as read_excel reads it
save_db(d) ==
    LET log == d.Event_Log
    IN  [d EXCEPT !.Event_Log =
            [i \in 1..Len(log) |-> [f \in DOMAIN log[i] |-> excel_cell(log[i][f])]]]

\* save_db(dfs); set_dfs(dfs); reload_from_disk()
save_and_reload(d) ==
    /\ disk' = save_db(d)
    /\ dfs' = <<load_db(save_db(d))>>

\* save_db(dfs); set_dfs(dfs)
save_and_set(d) ==
    /\ disk' = save_db(d)
    /\ dfs' = <<d>>

\* int(dfs["Event_Log"]["ID"].max()) + 1 if len(dfs["Event_Log"]) else 1
next_id(log) ==
    IF Len(log) = 0 THEN 1
    ELSE LET top == CHOOSE i \in DOMAIN log : \A j \in DOMAIN log : log[j].ID.v <= log[i].ID.v
         IN  TruncTenths(log[top].ID.v) + 1

\* The rows the event list shows (lines 621-632): those whose date parses
\* (the others have the month "") and whose status is one of the two of the
\* filter.  The user ticks any of them.
listado(log) ==
    {i \in DOMAIN log : /\ notna(to_datetime(log[i].Fecha))
                        /\ log[i].Estatus \in {Str("Pendiente"), Str("Efectuado")}}

\* edited.loc[edited["Seleccionar"] == True, "ID"]: the ids of the ticked rows
sel_ids(log, sel) == {log[i].ID : i \in sel}

\* dfs["Event_Log"].loc[dfs["Event_Log"]["ID"].isin(sel_ids), "Estatus"] = estatus
set_estatus(log, ids, estatus) ==
    [i \in 1..Len(log) |->
        IF log[i].ID \in ids THEN [log[i] EXCEPT !.Estatus = Str(estatus)] ELSE log[i]]

\* dfs["Event_Log"][~dfs["Event_Log"]["ID"].isin(sel_ids)].reset_index(drop=True)
drop_ids(log, ids) == SelectSeq(log, LAMBDA r : r.ID \notin ids)

\* faulty variant: the first ticked row becomes the target when several are ticked
edit_target_first(log, sel, cur) ==
    IF sel # {} THEN <<log[CHOOSE i \in sel : \A j \in sel : i <= j].ID>> ELSE cur

\* if len(sel_ids) == 1: st.session_state["edit_id"] = sel_ids[0]
edit_target(log, sel, cur) ==
    IF Cardinality(sel) = 1 THEN <<log[CHOOSE i \in sel : TRUE].ID>> ELSE cur

\* dfs["Event_Log"].loc[mask, [...]] = [e_fecha, e_hora, ...]: every column
\* but the id, of every row with the id
set_fields(log, eid, form) ==
    [i \in 1..Len(log) |-> IF log[i].ID = eid THEN [form EXCEPT !.ID = eid] ELSE log[i]]

Paquetes == {"Clásico", "Retro", "Clásico + Retro", "Otro"}

\* The edit form (lines 692-715) is built without an exception: the row of
\* the id is found (.iloc[0]), its package is one of the select box
\* (list.index) and its amounts are numbers (int() of an empty cell raises).
edit_form_ok(log, eid) ==
    /\ \E i \in DOMAIN log : log[i].ID = eid
    /\ LET row == log[CHOOSE i \in DOMAIN log :
                         log[i].ID = eid /\ \A j \in 1..(i-1) : log[j].ID # eid]
       IN  /\ row.Paquete \in {Str(p) : p \in Paquetes} \cup {Str("")}
           /\ row.Precio.k = "num"
           /\ row.Margen_Pizza.k = "num"
           /\ row.Costo_variable.k = "num"

\* the script gets past the Eventos tab
eventos_tab_ok ==
    (edit_id # <<>> /\ Log # <<>>) => edit_form_ok(Log, edit_id[1])

-----------------------------------------------------------------------------
(* Ads and Funnel *)

RECURSIVE gcd(_, _)
gcd(a, b) == IF b = 0 THEN a ELSE gcd(b, a % b)

\* n / d for integers n >= 0, d > 0: the integer when it is one, the reduced
\* fraction otherwise
quot(n, d) ==
    IF n % d = 0 THEN Num(n \div d)
    ELSE [k |-> "frac", n |-> n \div gcd(n, d), d |-> d \div gcd(n, d)]

AdsRow(mes, gasto, impresiones, clics, mensajes, cpm, ctr) ==
    [Mes |-> mes, Gasto |-> gasto, Impresiones |-> impresiones, Clics |-> clics,
     Mensajes |-> mensajes, Costo_por_mensaje |-> cpm, CTR |-> ctr]

AdsCols == {"Mes", "Gasto Ads (MXN)", "Impresiones", "Clics", "Mensajes",
            "Costo por mensaje (MXN)", "CTR (%)"}

compute_ads_metrics(mes, gasto, impresiones, clics, mensajes) ==
    AdsRow(Str(mes), Num(gasto), Num(impresiones), Num(clics), Num(mensajes),
           IF mensajes # 0 THEN quot(gasto, mensajes) ELSE Num(0),
           IF impresiones # 0 THEN quot(clics * 100, impresiones) ELSE Num(0))

FunnelFull(mes, mensajes, citas, reservas, tasa) ==
    [Mes |-> mes, Mensajes |-> mensajes, Citas |-> citas, Reservas |-> reservas,
     Tasa |-> tasa]

compute_funnel_metrics(mes, mensajes, citas, reservas) ==
    FunnelFull(Str(mes), Num(mensajes), Num(citas), Num(reservas),
               IF citas # 0 THEN quot(reservas * 100, citas) ELSE Num(0))

\* a row of NaN: what the columns a row does not have hold once they exist
blank(row) == [f \in DOMAIN row |-> NaN]

\* Lines 774-782 and 802-810: a table without the column "Mes" is replaced
\* by the twelve months; the rows of the month are overwritten when there
\* are some, the row is appended otherwise.
upsert(df, row, cols) ==
    LET base == IF "Mes" \notin df.columns
                THEN Table({"Mes"}, [i \in 1..12 |-> [Mes |-> Str(SPANISH_MONTHS[i])]])
                ELSE df
        rows == [i \in 1..Len(base.rows) |-> base.rows[i] @@ blank(row)]
    IN  IF \E i \in DOMAIN rows : rows[i].Mes = row.Mes
        THEN Table(base.columns \cup cols,
                   [i \in 1..Len(rows) |-> IF rows[i].Mes = row.Mes THEN row ELSE rows[i]])
        ELSE Table(base.columns \cup cols, Append(rows, row))

-----------------------------------------------------------------------------
(* The handlers.  Each is one run of the script in which one button is
   pressed; the runs that end with st.rerun() leave the store as the
   handler left it. *)

MaxId == 2

\* what the capture form and the edit form can hold
Forms ==
    { EventRow(NaN, Num(64), Num(36000), Num(43200), Str("Retro"), Num(800000),
               Str("Sí"), Num(50000), Str("No"), Num(100000), Str("Pendiente")),
      EventRow(NaN, Num(284), Num(57600), Num(64800), Str("Clásico"), Num(600000),
               Str("No"), Num(0), Str("Sí"), Num(0), Str("Efectuado")) }

View == <<monthly, kpi, cur_m, fullcal_events, rendered, ics>>

\* The sidebar comes first in every run of the script (lines 489-500): with
\* a file in the uploader, the run that reaches a button has rewritten the
\* database from it.
sidebar_ran == uploaded # <<>> => last.op = "sidebar"

\* a new browser session: session_state is empty (line 123)
NewSession ==
    /\ HasDfs
    /\ dfs' = <<>>
    /\ edit_id' = <<>>
    /\ uploaded' = <<>>
    /\ last' = Did("new_session", {}, "", <<>>)
    /\ UNCHANGED <<disk, View, added>>

\* "Guardar ahora" (lines 499-500)
SaveNow ==
    /\ HasDfs /\ sidebar_ran
    /\ disk' = save_db(dfs[1])
    /\ last' = Did("save_now", {}, "", <<>>)
    /\ UNCHANGED <<dfs, edit_id, View, uploaded, added>>

\* "Guardar evento" (lines 594-615)
AddEvent ==
    /\ HasDfs /\ sidebar_ran
    /\ next_id(Log) <= MaxId
    /\ \E form \in Forms :
          LET new_row == [form EXCEPT !.ID = IdCell(next_id(Log))]
              log == ensure_eventlog_columns(Append(Log, new_row))
          IN  /\ save_and_reload([dfs[1] EXCEPT !.Event_Log = log])
              /\ last' = Did("add", {}, "", <<form>>)
    /\ added' = added \cup {IdCell(next_id(Log))}
    /\ UNCHANGED <<edit_id, View, uploaded>>

\* "Marcar como Efectuado" (lines 658-664)
MarkEfectuado ==
    /\ HasDfs /\ sidebar_ran /\ Log # <<>>
    /\ \E sel \in SUBSET listado(Log) :
          /\ IF sel # {}
             THEN save_and_reload([dfs[1] EXCEPT !.Event_Log =
                      set_estatus(Log, sel_ids(Log, sel), "Efectuado")])
             ELSE UNCHANGED <<disk, dfs>>
          /\ last' = Did("mark_efectuado", sel, "", <<>>)
    /\ UNCHANGED <<edit_id, View, uploaded, added>>

\* "Marcar como Pendiente" (lines 666-672)
MarkPendiente ==
    /\ HasDfs /\ sidebar_ran /\ Log # <<>>
    /\ \E sel \in SUBSET listado(Log) :
          /\ IF sel # {}
             THEN save_and_reload([dfs[1] EXCEPT !.Event_Log =
                      set_estatus(Log, sel_ids(Log, sel), "Pendiente")])
             ELSE UNCHANGED <<disk, dfs>>
          /\ last' = Did("mark_pendiente", sel, "", <<>>)
    /\ UNCHANGED <<edit_id, View, uploaded, added>>

\* "Borrar seleccionados" (lines 674-680)
Delete ==
    /\ HasDfs /\ sidebar_ran /\ Log # <<>>
    /\ \E sel \in SUBSET listado(Log) :
          /\ IF sel # {}
             THEN save_and_reload([dfs[1] EXCEPT !.Event_Log =
                      drop_ids(Log, sel_ids(Log, sel))])
             ELSE UNCHANGED <<disk, dfs>>
          /\ last' = Did("delete", sel, "", <<>>)
          /\ added' = added \ sel_ids(Log, sel)
    /\ UNCHANGED <<edit_id, View, uploaded>>

\* "Editar seleccionado" (lines 682-686)
EditSelect ==
    /\ HasDfs /\ sidebar_ran /\ Log # <<>>
    /\ \E sel \in SUBSET listado(Log) :
          /\ edit_id' = edit_target(Log, sel, edit_id)
          /\ last' = Did("edit_select", sel, "", <<>>)
    /\ UNCHANGED <<disk, dfs, View, uploaded, added>>

\* "Guardar cambios" (lines 717-729), pressed in a form that was built
SaveEdit ==
    /\ HasDfs /\ sidebar_ran /\ Log # <<>>
    /\ edit_id # <<>>
    /\ edit_form_ok(Log, edit_id[1])
    /\ \E form \in Forms :
          /\ save_and_reload([dfs[1] EXCEPT !.Event_Log =
                                 set_fields(Log, edit_id[1], form)])
          /\ last' = Did("save_edit", {}, "", <<form>>)
    /\ edit_id' = <<>>
    /\ UNCHANGED <<View, uploaded, added>>

\* what the Ads form can hold: spend, impressions, clicks, messages
AdsInputs == {<<"Mar", 500, 2000, 30, 7>>, <<"Mar", 0, 0, 0, 0>>}

\* "Guardar Ads" (lines 773-785)
SaveAds ==
    /\ HasDfs /\ sidebar_ran /\ eventos_tab_ok
    /\ \E in \in AdsInputs :
          LET row == compute_ads_metrics(in[1], in[2], in[3], in[4], in[5])
          IN  /\ save_and_set([dfs[1] EXCEPT !.Ads = upsert(@, row, AdsCols)])
              /\ last' = Did("save_ads", {}, in[1], <<in>>)
    /\ UNCHANGED <<edit_id, View, uploaded, added>>

\* what the Funnel form can hold: messages, appointments, reservations
FunnelInputs == {<<"Mar", 9, 4, 3>>, <<"Dic", 5, 0, 0>>}

\* "Guardar Funnel" (lines 801-813)
SaveFunnel ==
    /\ HasDfs /\ sidebar_ran /\ eventos_tab_ok
    /\ \E in \in FunnelInputs :
          LET row == compute_funnel_metrics(in[1], in[2], in[3], in[4])
          IN  /\ save_and_set([dfs[1] EXCEPT !.Funnel = upsert(@, row, FunnelCols)])
              /\ last' = Did("save_funnel", {}, in[1], <<in>>)
    /\ UNCHANGED <<edit_id, View, uploaded, added>>

\* "Guardar Assumptions" (lines 829-832): the table of the editor replaces
\* the sheet
SaveAssumptions ==
    /\ HasDfs /\ sidebar_ran /\ eventos_tab_ok
    /\ \E edited \in {AssumptionRows(200000, 5000000)} :
          /\ save_and_set([dfs[1] EXCEPT !.Assumptions = edited])
          /\ last' = Did("save_assumptions", {}, "", <<>>)
    /\ UNCHANGED <<edit_id, View, uploaded, added>>

StoredRow(id, form) == [form EXCEPT !.ID = id]

\* The files the sessions start from: an empty one; one whose second id is
\* 1.5 and whose Ads has two rows for March; one with the ids 1 and 2, a
\* second event without package or amounts, and a Funnel for two months.
StoredFiles ==
    LET a == CHOOSE f \in Forms : f.Paquete = Str("Retro")
        b == CHOOSE f \in Forms : f.Paquete = Str("Clásico")
    IN  { File(<<>>, EmptyTable, EmptyTable, EmptyTable),
          [File(<<StoredRow(Num(10), a), StoredRow(Num(15), b)>>,
                AssumptionRows(200000, 5000000), EmptyTable, EmptyTable)
             EXCEPT !.Ads = Table(AdsCols,
                 << compute_ads_metrics("Mar", 100, 1000, 10, 4),
                    compute_ads_metrics("Mar", 200, 1000, 20, 0),
                    compute_ads_metrics("Oct", 300, 900, 9, 3) >>)],
          File(<<StoredRow(Num(10), a),
                 EventRow(Num(20), Num(79), NaN, NaN, NaN, NaN, NaN, NaN, NaN, NaN,
                          Str("Pendiente"))>>,
               EmptyTable,
               Table(FunnelCols, << compute_funnel_metrics("Mar", 8, 4, 1),
                                    compute_funnel_metrics("Oct", 6, 3, 3) >>),
               EmptyTable) }

InitUI ==
    /\ disk \in StoredFiles
    /\ dfs = <<>>
    /\ NoView

NextUI ==
    \/ LoadDb \/ NewSession \/ SaveNow
    \/ AddEvent \/ MarkEfectuado \/ MarkPendiente \/ Delete \/ EditSelect \/ SaveEdit
    \/ SaveAds \/ SaveFunnel \/ SaveAssumptions

SpecUI == InitUI /\ [][NextUI]_vars

\* the handlers of the Eventos tab alone
NextEvents ==
    \/ LoadDb \/ NewSession
    \/ AddEvent \/ MarkEfectuado \/ MarkPendiente \/ Delete \/ EditSelect \/ SaveEdit

SpecEvents == InitUI /\ [][NextEvents]_vars

-----------------------------------------------------------------------------
(* The uploader of the sidebar (lines 489-496).  st.rerun() makes the build a
   Streamlit that hands the script a new UploadedFile on every run, so every
   read() returns the whole file. *)

\* A file is put in the uploader, and the run that follows: the database is
\* rewritten from it and reloaded.  The user replaced the database, so the
\* ids given out before are no longer followed.
Upload ==
    /\ HasDfs
    /\ \E f \in StoredFiles :
          /\ uploaded' = <<f>>
          /\ disk' = f
          /\ dfs' = <<load_db(f)>>
    /\ added' = {}
    /\ last' = Did("upload", {}, "", <<>>)
    /\ UNCHANGED <<edit_id, View>>

\* The sidebar of a later run, the one st.rerun() starts included, while the
\* uploader still holds the file: "if uploaded:" writes it to DB_PATH and
\* reloads.
Sidebar ==
    /\ uploaded # <<>>
    /\ disk' = uploaded[1]
    /\ dfs' = <<load_db(uploaded[1])>>
    /\ last' = Did("sidebar", {}, "", <<>>)
    /\ UNCHANGED <<edit_id, View, uploaded, added>>

\* the file is taken out of the uploader: the run that follows skips the branch
ClearUpload ==
    /\ uploaded # <<>>
    /\ uploaded' = <<>>
    /\ last' = Did("clear_upload", {}, "", <<>>)
    /\ UNCHANGED <<disk, dfs, edit_id, View, added>>

NextUpload ==
    \/ LoadDb \/ NewSession
    \/ Upload \/ Sidebar \/ ClearUpload
    \/ AddEvent \/ MarkEfectuado \/ MarkPendiente \/ Delete \/ EditSelect \/ SaveEdit

SpecUpload == InitUI /\ [][NextUpload]_vars

-----------------------------------------------------------------------------
(* What is claimed of the handlers *)

\* the last run changed the store: a save, or a mark or a delete with rows
\* ticked
Mutated ==
    \/ last.op \in {"add", "save_edit", "save_ads", "save_funnel", "save_assumptions"}
    \/ last.op \in {"mark_efectuado", "mark_pendiente", "delete"} /\ last.sel # {}

\* C14: after every action that mutates the store (add, mark, delete, save
\* edit, save Ads, save Funnel, save Assumptions) the store was persisted and
\* reloaded: the store in memory is load_db of the file on disk.
C14_PersistThenReload ==
    (HasDfs /\ Mutated) => dfs[1] = load_db(disk)

IdsOf(log) == [i \in 1..Len(log) |-> log[i].ID]

\* C16: save edit, mark Efectuado and mark Pendiente change no id and change
\* no row but those of the edited or ticked ids; delete changes no id of the
\* events that remain.
C16_IdsStable ==
    [][ /\ last'.op \in {"mark_efectuado", "mark_pendiente"} =>
              /\ IdsOf(Log') = IdsOf(Log)
              /\ \A i \in DOMAIN Log :
                    Log[i].ID \notin sel_ids(Log, last'.sel) => Log'[i] = Log[i]
        /\ last'.op = "save_edit" =>
              /\ IdsOf(Log') = IdsOf(Log)
              /\ \A i \in DOMAIN Log : Log[i].ID # edit_id[1] => Log'[i] = Log[i]
        /\ last'.op = "delete" =>
              IdsOf(Log') = IdsOf(SelectSeq(Log,
                                LAMBDA r : r.ID \notin sel_ids(Log, last'.sel))) ]_vars

\* n / d, as a cell
IsQuotient(c, n, d) ==
    \/ c.k = "num" /\ c.v * d = n
    \/ c.k = "frac" /\ c.n * d = n * c.d

\* the rows of the months other than mes
OtherMonths(tbl, mes) == SelectSeq(tbl.rows, LAMBDA r : r.Mes # Str(mes))

\* C18: after Ads or Funnel are saved for a month, the table has exactly one
\* row for it, holding the counters entered and the ratios (0 when the
\* denominator is 0), and the rows of the other months are as they were.
C18_UpsertByMonth ==
    [][ /\ last'.op = "save_ads" =>
              LET in == last'.form[1]
                  t == dfs'[1].Ads
                  hits == {i \in DOMAIN t.rows : t.rows[i].Mes = Str(in[1])}
              IN  /\ Cardinality(hits) = 1
                  /\ \A i \in hits :
                        /\ t.rows[i].Gasto = Num(in[2])
                        /\ t.rows[i].Impresiones = Num(in[3])
                        /\ t.rows[i].Clics = Num(in[4])
                        /\ t.rows[i].Mensajes = Num(in[5])
                        /\ IF in[5] = 0 THEN t.rows[i].Costo_por_mensaje = Num(0)
                           ELSE IsQuotient(t.rows[i].Costo_por_mensaje, in[2], in[5])
                        /\ IF in[3] = 0 THEN t.rows[i].CTR = Num(0)
                           ELSE IsQuotient(t.rows[i].CTR, in[4] * 100, in[3])
                  /\ "Mes" \in dfs[1].Ads.columns =>
                        OtherMonths(t, in[1]) = OtherMonths(dfs[1].Ads, in[1])
        /\ last'.op = "save_funnel" =>
              LET in == last'.form[1]
                  t == dfs'[1].Funnel
                  hits == {i \in DOMAIN t.rows : t.rows[i].Mes = Str(in[1])}
              IN  /\ Cardinality(hits) = 1
                  /\ \A i \in hits :
                        /\ t.rows[i].Mensajes = Num(in[2])
                        /\ t.rows[i].Citas = Num(in[3])
                        /\ t.rows[i].Reservas = Num(in[4])
                        /\ IF in[3] = 0 THEN t.rows[i].Tasa = Num(0)
                           ELSE IsQuotient(t.rows[i].Tasa, in[4] * 100, in[3])
                  /\ "Mes" \in dfs[1].Funnel.columns =>
                        OtherMonths(t, in[1]) = OtherMonths(dfs[1].Funnel, in[1]) ]_vars

\* the largest id of a log, 0 for an empty one
MaxIdOf(log) ==
    IF log = <<>> THEN 0
    ELSE CHOOSE m \in {log[i].ID.v \div 10 : i \in DOMAIN log} :
            \A i \in DOMAIN log : log[i].ID.v \div 10 <= m

\* C19: in every loaded store the ids are integers and no two events share
\* one, and an added event gets the largest id of the log plus 1 (1 in an
\* empty log).
C19_IdsUniqueAddedIsMaxPlusOne ==
    [][ /\ HasDfs' =>
              /\ \A i \in DOMAIN Log' : Log'[i].ID.k = "num" /\ Log'[i].ID.v % 10 = 0
              /\ \A i, j \in DOMAIN Log' : i # j => Log'[i].ID # Log'[j].ID
        /\ last'.op = "add" =>
              /\ Len(Log') = Len(Log) + 1
              /\ Log'[Len(Log')].ID = IdCell(MaxIdOf(Log) + 1)
              /\ \A i \in DOMAIN Log : Log[i].ID # Log'[Len(Log')].ID ]_vars

\* C20: whenever the session has an edit target and the list of events is
\* shown (the log is not empty), an event with that id is in the log.
C20_EditTargetExists ==
    (HasDfs /\ edit_id # <<>> /\ Log # <<>>) =>
        \E i \in DOMAIN Log : Log[i].ID = edit_id[1]

\* C21: an event "Guardar evento" added is in the store in memory and in the
\* file on disk in every later state, until a delete selects its id; the
\* runs in which the uploader still holds a file are no exception.
C21_AddedEventStays ==
    \A id \in added :
        /\ HasDfs => \E i \in DOMAIN Log : Log[i].ID = id
        /\ \E i \in DOMAIN disk.Event_Log : disk.Event_Log[i].ID = id

=============================================================================
